---------------------------- MODULE Spec2Model ----------------------------
(***************************************************************************)
(* Model of create_input.py: the reshape of a raster into chunk rows, the  *)
(* packing of 10 RGB pixels into one 240-bit word rendered as hexadecimal, *)
(* the clamp of the coefficient raster and the pipeline that builds the    *)
(* {"original", "transformed"} structure.                                  *)
(*                                                                         *)
(* The raster dimensions are scaled: the source's 720 rows are ImgHeight   *)
(* rows and its 160-pixel chunk is GroupsPerChunk groups of GroupSize      *)
(* pixels (16 groups in the source).  The number of chunks (8), the group  *)
(* size (10), the bit layout and the clamp constants are the source's.     *)
(*                                                                         *)
(* A Python int is unbounded, so a packed word is modelled as a two's      *)
(* complement digit string in base 256: [neg, d], d[k] the k-th byte and   *)
(* every byte above NBytes-1 equal to the sign byte.                       *)
(***************************************************************************)
EXTENDS Integers, Sequences, FiniteSets, TLC

\* ---------------------------------------------------------------- bounds
ScaledHeight == 2
GroupsPerChunk == 2
ValBytes == 2

\* ------------------------------------------------------ program constants
NumChunks == 8
GroupSize == 10
ClipLo == -127
ClipHi == 127
ClipShift == 128
ChannelBits == 8
PixelBits == 24

ImgHeight == ScaledHeight
new_width == GroupsPerChunk * GroupSize
ImgWidth == NumChunks * new_width
new_height == ImgHeight * NumChunks

Byte == 2 ^ ChannelBits
BytesPerPixel == PixelBits \div ChannelBits
WordBytes == GroupSize * BytesPerPixel
NBytes == WordBytes + ValBytes

\* ---------------------------------------------------------------- rasters
\* A numpy array of shape (h, w, 3) is [h, w, px]: px[r][c] is the pixel
\* <<R, G, B>>, for r in 0..h-1 and c in 0..w-1.

Min(a, b) == IF a < b THEN a ELSE b
Max(a, b) == IF a > b THEN a ELSE b

\* The outcome of a call: a returned value, or an exception together with
\* the number of output items the call had produced when it was raised.
Return(v) == [ok |-> TRUE, error |-> "", progress |-> 0, value |-> <<v>>]
Raise(e, n) == [ok |-> FALSE, error |-> e, progress |-> n, value |-> <<>>]

\* ---------------------------------------------------------------- reshape
ReshapeAssertHeightOnly(image) == image.h = ImgHeight

\* assert height == 720 and width == 1280
ReshapeAssert(image) == image.h = ImgHeight /\ image.w = ImgWidth

\* image[orig_row, start_col:end_col, :] : numpy clips the slice to the row
SliceCols(image, start_col, end_col) ==
  Min(start_col, image.w) .. (Min(end_col, image.w) - 1)

ChunkStartOffByOne(chunk_idx) == chunk_idx * new_width + 1

\* start_col = chunk_idx * 160
ChunkStart(chunk_idx) == chunk_idx * new_width

\* output[new_row, :, :] = <slice> succeeds when the slice has new_width
\* pixels or one pixel (broadcast), and new_row is a row of the output
ChunkAssignable(image, orig_row, chunk_idx) ==
  LET start_col == ChunkStart(chunk_idx)
      n == Cardinality(SliceCols(image, start_col, start_col + new_width))
  IN  /\ orig_row * NumChunks + chunk_idx < new_height
      /\ n = new_width \/ n = 1

\* Iterations of the nested loop, numbered in execution order
IterRow(k) == k \div NumChunks
IterChunk(k) == k % NumChunks

ReshapedPixel(image, new_row, col) ==
  LET orig_row == new_row \div NumChunks
      start_col == ChunkStart(new_row % NumChunks)
      cols == SliceCols(image, start_col, start_col + new_width)
  IN  IF Cardinality(cols) = 1
        THEN image.px[orig_row][Min(start_col, image.w)]
        ELSE image.px[orig_row][start_col + col]

reshape_image_1280x720_to_160x5760(image) ==
  IF ~ReshapeAssert(image)
    THEN Raise("AssertionError", 0)
    ELSE LET iters == 0..(image.h * NumChunks - 1)
             bad == {k \in iters : ~ChunkAssignable(image, IterRow(k), IterChunk(k))}
         IN  IF bad # {}
               THEN LET k == CHOOSE x \in bad : \A y \in bad : x <= y
                    IN  Raise(IF k >= new_height THEN "IndexError" ELSE "ValueError", k)
               ELSE Return(
                 [h |-> new_height, w |-> new_width,
                  px |-> [r \in 0..(new_height - 1) |->
                            [c \in 0..(new_width - 1) |-> ReshapedPixel(image, r, c)]]])

\* -------------------------------------------------------- Python integers
\* int(v) for a numpy scalar v with -Byte^ValBytes <= v < Byte^ValBytes
ToBig(v) ==
  [neg |-> v < 0,
   d |-> [k \in 0..(NBytes - 1) |->
            IF k < ValBytes THEN (v \div (Byte ^ k)) % Byte
            ELSE IF v < 0 THEN Byte - 1 ELSE 0]]

\* x << bits, for bits a multiple of ChannelBits
ShiftLeft(x, bits) ==
  LET s == bits \div ChannelBits
  IN  [neg |-> x.neg,
       d |-> [k \in 0..(NBytes - 1) |-> IF k < s THEN 0 ELSE x.d[k - s]]]

RECURSIVE OrBits(_, _, _)
OrBits(a, b, n) ==
  IF n = 0 THEN 0
  ELSE (IF a % 2 = 1 \/ b % 2 = 1 THEN 1 ELSE 0)
       + 2 * OrBits(a \div 2, b \div 2, n - 1)

OrByte(a, b) ==
  IF a = 0 THEN b ELSE IF b = 0 THEN a ELSE OrBits(a, b, ChannelBits)

\* x | y
BigOr(x, y) ==
  [neg |-> x.neg \/ y.neg,
   d |-> [k \in 0..(NBytes - 1) |-> OrByte(x.d[k], y.d[k])]]

\* abs(x) as base-256 digits
Magnitude(x) ==
  IF ~x.neg THEN x.d
  ELSE [k \in 0..(NBytes - 1) |->
          ((Byte - 1 - x.d[k])
           + (IF \A j \in 0..(k - 1) : x.d[j] = 0 THEN 1 ELSE 0)) % Byte]

HexChars ==
  <<"0", "1", "2", "3", "4", "5", "6", "7", "8", "9", "a", "b", "c", "d", "e", "f">>

Nibble(m, j) == IF j % 2 = 0 THEN m[j \div 2] % 16 ELSE m[j \div 2] \div 16

\* f"0x{compressed:x}"
FormatHex(x) ==
  LET m == Magnitude(x)
      nz == {j \in 0..(2 * NBytes - 1) : Nibble(m, j) # 0}
      top == IF nz = {} THEN 0 ELSE CHOOSE j \in nz : \A i \in nz : i <= j
  IN  <<"0", "x">> \o (IF x.neg THEN <<"-">> ELSE <<>>)
        \o [i \in 1..(top + 1) |-> HexChars[Nibble(m, top + 1 - i) + 1]]

\* ---------------------------------------------------------------- packing
ChannelOffsetRedHigh(pixel_idx, j) ==
  pixel_idx * PixelBits + (BytesPerPixel - 1 - j) * ChannelBits

ChannelOffsetNarrow(pixel_idx, j) ==
  pixel_idx * (PixelBits - ChannelBits) + j * ChannelBits

ChannelOffsetShifted(pixel_idx, j) ==
  pixel_idx * PixelBits + (j + 1) * ChannelBits

\* pixel_idx * 24 + 0, + 8, + 16 for r, g, b (j = 0, 1, 2)
ChannelOffset(pixel_idx, j) == pixel_idx * PixelBits + j * ChannelBits

\* compressed after the first n iterations of the pixel_idx loop
RECURSIVE PackPixels(_, _)
PackPixels(pixels, n) ==
  IF n = 0 THEN ToBig(0)
  ELSE LET acc == PackPixels(pixels, n - 1)
           p == n - 1
           r == pixels[p][1]
           g == pixels[p][2]
           b == pixels[p][3]
           c1 == BigOr(acc, ShiftLeft(ToBig(r), ChannelOffset(p, 0)))
           c2 == BigOr(c1, ShiftLeft(ToBig(g), ChannelOffset(p, 1)))
       IN  BigOr(c2, ShiftLeft(ToBig(b), ChannelOffset(p, 2)))

\* pixels = image[row_idx, i:i+10, :]
GroupPixels(image, row_idx, i) ==
  [p \in 0..(Min(i + GroupSize, image.w) - i - 1) |-> image.px[row_idx][i + p]]

PackGroup(image, row_idx, i) ==
  FormatHex(PackPixels(GroupPixels(image, row_idx, i), GroupSize))

CompressAssertNone(image) == TRUE

\* assert width % 10 == 0
CompressAssert(image) == image.w % GroupSize = 0

create_compressed_rows(image) ==
  IF ~CompressAssert(image)
    THEN Raise("AssertionError", 0)
    ELSE LET full == image.w \div GroupSize
         IN  IF image.h > 0 /\ image.w % GroupSize # 0
               \* pixels[pixel_idx] past the end of the last, short group
               THEN Raise("IndexError", full)
               ELSE Return([row \in 1..image.h |->
                              [g \in 1..full |->
                                 PackGroup(image, row - 1, (g - 1) * GroupSize)]])

\* ------------------------------------------------------------------ clamp
ClipWide(v) == Max(ClipLo - 1, Min(ClipHi, v))

\* np.clip(v, -127, 127)
Clip(v) == Max(ClipLo, Min(ClipHi, v))

AsUint8(v) == v % Byte

\* np.clip(transformed, -127, 127) + 128: a new array of the same shape
ClampRaster(transformed) ==
  [h |-> transformed.h, w |-> transformed.w,
   px |-> [r \in 0..(transformed.h - 1) |-> [c \in 0..(transformed.w - 1) |->
             LET v == transformed.px[r][c]
             IN  <<Clip(v[1]) + ClipShift, Clip(v[2]) + ClipShift,
                   Clip(v[3]) + ClipShift>>]]]

\* transformed_clamped.astype(np.uint8): a new array of the same shape
AsTypeUint8(raster) ==
  [h |-> raster.h, w |-> raster.w,
   px |-> [r \in 0..(raster.h - 1) |-> [c \in 0..(raster.w - 1) |->
             LET v == raster.px[r][c]
             IN  <<AsUint8(v[1]), AsUint8(v[2]), AsUint8(v[3])>>]]]

\* ------------------------------------------------- the external transform
\* JPEG_QUANT_LUMINANCE, JPEG_QUANT_CHROMINANCE: opaque tables, by name
\* quant_tables = [luminance, chrominance, chrominance]
QuantTables ==
  <<"JPEG_QUANT_LUMINANCE", "JPEG_QUANT_CHROMINANCE", "JPEG_QUANT_CHROMINANCE">>

\* Values a coefficient may take: inside, on the edge of, and outside the
\* clip range and the unsigned 8-bit range.
CoefValues == <<0, -1, 1, -127, 127, -128, 128, -300, 300, 40, -40>>

TableWeight(t) == IF t = "JPEG_QUANT_LUMINANCE" THEN 0 ELSE 3

\* The kernels the adapter may be: one that raises, and MaxSeed + 1
\* shape-preserving pure functions of the raster and the tables.
MaxSeed == 2
Kernels ==
  {[fails |-> TRUE, seed |-> 0]} \cup {[fails |-> FALSE, seed |-> s] : s \in 0..MaxSeed}

\* apply_dctq_approx(image, quant_tables): opaque, pure, shape-preserving
DctqApprox(k, image, quant_tables) ==
  IF k.fails THEN Raise("TransformError", 0)
  ELSE Return(
    [h |-> image.h, w |-> image.w,
     px |-> [r \in 0..(image.h - 1) |-> [c \in 0..(image.w - 1) |->
       LET coef(ch) ==
             CoefValues[((image.px[r][c][ch] + 2 * r + c + k.seed
                          + TableWeight(quant_tables[ch])) % Len(CoefValues)) + 1]
       IN  <<coef(1), coef(2), coef(3)>>]]])

ApplySwallowingFailure(k, image) ==
  IF k.fails THEN Return(image) ELSE DctqApprox(k, image, QuantTables)

apply_dctq_transformation(k, image) == DctqApprox(k, image, QuantTables)

\* ----------------------------------------------------------------- inputs
InRangePatterns == {"index", "rowfill", "ramp", "white", "black", "sparse"}
OutOfRangePatterns == {"over", "neg", "mixed"}

PatPixel(pat, r, c) ==
  CASE pat = "index"   -> <<(r * 131 + c) % Byte, c % Byte, r % Byte>>
    [] pat = "rowfill" -> <<r % Byte, 0, 0>>
    [] pat = "ramp"    -> <<3 * (c % GroupSize) + 1, 3 * (c % GroupSize) + 2,
                            3 * (c % GroupSize) + 3>>
    [] pat = "white"   -> <<Byte - 1, Byte - 1, Byte - 1>>
    [] pat = "black"   -> <<0, 0, 0>>
    [] pat = "sparse"  -> <<IF c % GroupSize = 0 THEN 9 + r ELSE 0, 0, 0>>
    [] pat = "over"    -> <<IF c % GroupSize = 1 THEN Byte ELSE 1, 2, 3>>
    [] pat = "neg"     -> <<4, IF c % GroupSize = 2 THEN -1 ELSE 5, 6>>
    [] pat = "mixed"   -> <<7, 8, IF c % 2 = 0 THEN 300 ELSE -200>>

Pattern(h, w, pat) ==
  [h |-> h, w |-> w,
   px |-> [r \in 0..(h - 1) |-> [c \in 0..(w - 1) |-> PatPixel(pat, r, c)]]]

\* np.array(img) after img.convert("RGB").resize((1280, 720)): uint8 values
CanonicalImages == {Pattern(ImgHeight, ImgWidth, pat) : pat \in InRangePatterns}

ReshapeShapes ==
  {<<ImgHeight, ImgWidth>>, <<ImgHeight + 1, ImgWidth>>, <<ImgHeight - 1, ImgWidth>>,
   <<ImgHeight, ImgWidth + 1>>, <<ImgHeight, ImgWidth - 1>>,
   <<ImgHeight, new_width>>, <<new_height, new_width>>}
ReshapeInputs ==
  {Pattern(s[1], s[2], pat) : s \in ReshapeShapes, pat \in {"index", "rowfill"}}

CompressWidths ==
  {0, GroupSize - 1, GroupSize, GroupSize + 5, 2 * GroupSize, 2 * GroupSize + 1}
CompressInputs ==
  {Pattern(h, w, pat) : h \in 1..2, w \in CompressWidths,
                        pat \in InRangePatterns \cup OutOfRangePatterns}

\* ------------------------------------------------------------------ state
VARIABLES
  pc,                  \* position in the run
  call,                \* which function was entered: "", "reshape", "compress", "main"
  image, ret,          \* argument and outcome of a direct call
  img_array, reshaped, kernel, transformed, compressed_orig,
  transformed_clamped, compressed_tran, json_data,
  file,                \* what json.dump wrote to output_json_path
  failedAt             \* the stage whose exception ended the run

vars == <<pc, call, image, ret, img_array, reshaped, kernel, transformed,
          compressed_orig, transformed_clamped, compressed_tran, json_data,
          file, failedAt>>

locals == <<img_array, reshaped, kernel, transformed, compressed_orig,
            transformed_clamped, compressed_tran, json_data, file, failedAt>>

NoImage == Pattern(0, 0, "black")
NoResult == Raise("none", 0)
NoKernel == [fails |-> FALSE, seed |-> 0]

Init ==
  /\ pc = "start" /\ call = ""
  /\ image = NoImage /\ ret = NoResult
  /\ img_array = <<>> /\ reshaped = <<>> /\ kernel = NoKernel
  /\ transformed = <<>> /\ compressed_orig = <<>>
  /\ transformed_clamped = <<>> /\ compressed_tran = <<>>
  /\ json_data = <<>> /\ file = <<>> /\ failedAt = ""

\* ----------------------------------------------------------- direct calls
CallReshape ==
  /\ pc = "start"
  /\ \E img \in ReshapeInputs :
       /\ image' = img
       /\ ret' = reshape_image_1280x720_to_160x5760(img)
       /\ pc' = IF ret'.ok THEN "returned" ELSE "raised"
  /\ call' = "reshape"
  /\ UNCHANGED locals

CallCompress ==
  /\ pc = "start"
  /\ \E img \in CompressInputs :
       /\ image' = img
       /\ ret' = create_compressed_rows(img)
       /\ pc' = IF ret'.ok THEN "returned" ELSE "raised"
  /\ call' = "compress"
  /\ UNCHANGED locals

\* ----------------------------------------------- create_dctq_input_json
Fail(stage) == pc' = "failed" /\ failedAt' = stage

Load ==
  /\ pc = "start"
  /\ call' = "main"
  /\ \/ \E I \in CanonicalImages : img_array' = <<I>> /\ pc' = "reshape"
                                     /\ UNCHANGED failedAt
     \/ Fail("load") /\ UNCHANGED img_array
  /\ UNCHANGED <<image, ret, reshaped, kernel, transformed, compressed_orig,
                 transformed_clamped, compressed_tran, json_data, file>>

Reshape ==
  /\ pc = "reshape"
  /\ LET res == reshape_image_1280x720_to_160x5760(img_array[1])
     IN  IF res.ok THEN reshaped' = res.value /\ pc' = "transform"
                        /\ UNCHANGED failedAt
         ELSE Fail("reshape") /\ UNCHANGED reshaped
  /\ UNCHANGED <<call, image, ret, img_array, kernel, transformed, compressed_orig,
                 transformed_clamped, compressed_tran, json_data, file>>

Transform ==
  /\ pc = "transform"
  /\ \E k \in Kernels :
       /\ kernel' = k
       /\ LET res == apply_dctq_transformation(k, reshaped[1])
          IN  IF res.ok THEN transformed' = res.value /\ pc' = "pack_orig"
                             /\ UNCHANGED failedAt
              ELSE Fail("transform") /\ UNCHANGED transformed
  /\ UNCHANGED <<call, image, ret, img_array, reshaped, compressed_orig,
                 transformed_clamped, compressed_tran, json_data, file>>

OrigPackInputTransformed(resh, tran) == tran

\* create_compressed_rows(reshaped)
OrigPackInput(resh, tran) == resh

PackOriginal ==
  /\ pc = "pack_orig"
  /\ LET res == create_compressed_rows(OrigPackInput(reshaped[1], transformed[1]))
     IN  IF res.ok THEN compressed_orig' = res.value /\ pc' = "clamp"
                        /\ UNCHANGED failedAt
         ELSE Fail("pack_orig") /\ UNCHANGED compressed_orig
  /\ UNCHANGED <<call, image, ret, img_array, reshaped, kernel, transformed,
                 transformed_clamped, compressed_tran, json_data, file>>

Clamp ==
  /\ pc = "clamp"
  /\ transformed_clamped' = <<ClampRaster(transformed[1])>>
  /\ pc' = "pack_tran"
  /\ UNCHANGED <<call, image, ret, img_array, reshaped, kernel, transformed,
                 compressed_orig, compressed_tran, json_data, file, failedAt>>

PackTransformed ==
  /\ pc = "pack_tran"
  /\ LET res == create_compressed_rows(AsTypeUint8(transformed_clamped[1]))
     IN  IF res.ok THEN compressed_tran' = res.value /\ pc' = "assemble"
                        /\ UNCHANGED failedAt
         ELSE Fail("pack_tran") /\ UNCHANGED compressed_tran
  /\ UNCHANGED <<call, image, ret, img_array, reshaped, kernel, transformed,
                 compressed_orig, transformed_clamped, json_data, file>>

Assemble ==
  /\ pc = "assemble"
  /\ json_data' = <<[original |-> compressed_orig[1],
                     transformed |-> compressed_tran[1]]>>
  /\ pc' = "write"
  /\ UNCHANGED <<call, image, ret, img_array, reshaped, kernel, transformed,
                 compressed_orig, transformed_clamped, compressed_tran, file,
                 failedAt>>

WriteJson ==
  /\ pc = "write"
  /\ file' = json_data
  /\ pc' = "done"
  /\ UNCHANGED <<call, image, ret, img_array, reshaped, kernel, transformed,
                 compressed_orig, transformed_clamped, compressed_tran, json_data,
                 failedAt>>

Next ==
  \/ CallReshape \/ CallCompress
  \/ Load \/ Reshape \/ Transform \/ PackOriginal \/ Clamp \/ PackTransformed
  \/ Assemble \/ WriteJson

Spec == Init /\ [][Next]_vars

\* ======================================================== the properties
\* Reading a rendered word back: the value of a hexadecimal character, the
\* j-th nibble and the k-th byte (bits [8k, 8k+8)) of the integer it denotes.
HexVal(ch) ==
  IF \E i \in 1..16 : HexChars[i] = ch
    THEN (CHOOSE i \in 1..16 : HexChars[i] = ch) - 1
    ELSE -1

\* "0x" followed by one or more lowercase hexadecimal digits
WellFormedWord(word) ==
  /\ Len(word) >= 3
  /\ word[1] = "0" /\ word[2] = "x"
  /\ \A i \in 3..Len(word) : HexVal(word[i]) >= 0

WordNibble(word, j) ==
  IF j < Len(word) - 2 THEN HexVal(word[Len(word) - j]) ELSE 0

WordByte(word, k) == WordNibble(word, 2 * k) + 16 * WordNibble(word, 2 * k + 1)

\* unpack: the 30 channel values read from bytes 0..29 of the word
Unpack(word) == [k \in 0..(WordBytes - 1) |-> WordByte(word, k)]

\* The 30 channel values of group g of a raster row, pixel 0 red, green,
\* blue, ..., pixel 9 red, green, blue
GroupChannels(raster, row, g) ==
  [k \in 0..(WordBytes - 1) |->
     raster.px[row][g * GroupSize + k \div BytesPerPixel][(k % BytesPerPixel) + 1]]

InRange(raster) ==
  \A r \in 0..(raster.h - 1) : \A c \in 0..(raster.w - 1) : \A ch \in 1..3 :
    raster.px[r][c][ch] \in 0..(Byte - 1)

\* The packings a state holds: <<raster packed, rows returned>>
Packings ==
  (IF call = "compress" /\ ret.ok THEN {<<image, ret.value[1]>>} ELSE {})
  \cup (IF compressed_orig # <<>> THEN {<<reshaped[1], compressed_orig[1]>>} ELSE {})
  \cup (IF compressed_tran # <<>>
          THEN {<<AsTypeUint8(transformed_clamped[1]), compressed_tran[1]>>} ELSE {})

\* output[r*8+c][x] = input[r][c*160+x], and the output has 8 times the rows
\* and an eighth of the width
IsReshapeOf(out, in) ==
  /\ out.h = NumChunks * in.h /\ out.w * NumChunks = in.w
  /\ DOMAIN out.px = 0..(out.h - 1)
  /\ \A r \in 0..(in.h - 1) : \A c \in 0..(NumChunks - 1) :
       /\ DOMAIN out.px[r * NumChunks + c] = 0..(out.w - 1)
       /\ \A x \in 0..(out.w - 1) :
            out.px[r * NumChunks + c][x] = in.px[r][c * out.w + x]
  /\ \A nr \in 0..(out.h - 1) : \A col \in 0..(out.w - 1) :
       out.px[nr][col] = in.px[nr \div NumChunks][(nr % NumChunks) * out.w + col]

\* C1: for every raster of the canonical height and width, the reshape
\* returns a raster of 8 times the height and an eighth of the width with
\* output[r*8+c][x] = input[r][c*160+x], all three channels copied unchanged
\* (in a direct call and in the pipeline alike).
C1_ReshapeMapping ==
  /\ (call = "reshape" /\ image.h = ImgHeight /\ image.w = ImgWidth)
       => /\ ret.ok /\ pc = "returned"
          /\ ret.value[1].h = new_height /\ ret.value[1].w = new_width
          /\ IsReshapeOf(ret.value[1], image)
  /\ (call = "main" /\ pc \notin {"start", "reshape", "failed"})
       => /\ reshaped # <<>>
          /\ reshaped[1].h = new_height /\ reshaped[1].w = new_width
          /\ IsReshapeOf(reshaped[1], img_array[1])

C1_Witness ==
  /\ call = "reshape" /\ pc = "returned"
  /\ image.h = ImgHeight /\ image.w = ImgWidth
  /\ image.px[0][0] # image.px[ImgHeight - 1][ImgWidth - 1]
  /\ ret.value[1].px[new_height - 1][new_width - 1] = image.px[ImgHeight - 1][ImgWidth - 1]

\* The word is the lowercase hexadecimal rendering, with a 0x prefix and no
\* leading zero digit, of the integer whose base-256 digits are the 30
\* channel values, i.e. of sum over p of (R + G*256 + B*65536) * 16777216^p.
IsRenderingOfSum(word, channels) ==
  /\ WellFormedWord(word)
  /\ Len(word) > 3 => word[3] # "0"
  /\ Len(word) - 2 <= 2 * WordBytes
  /\ \A k \in 0..(WordBytes - 1) :
       /\ WordNibble(word, 2 * k) = channels[k] % 16
       /\ WordNibble(word, 2 * k + 1) = channels[k] \div 16

\* C2: for a raster whose width W is divisible by 10 and whose channel
\* values are all in [0,255], create_compressed_rows returns one row per
\* raster row, in order, each of exactly W/10 words in group order, the g-th
\* word being the 0x-prefixed lowercase hexadecimal rendering without leading
\* zeros of the sum over p of (R + G*256 + B*65536) * 16777216^p.
C2_PackedWords ==
  (call = "compress" /\ image.w % GroupSize = 0 /\ InRange(image))
    => /\ ret.ok /\ pc = "returned"
       /\ Len(ret.value[1]) = image.h
       /\ \A row \in 1..image.h :
            /\ Len(ret.value[1][row]) = image.w \div GroupSize
            /\ \A g \in 1..(image.w \div GroupSize) :
                 IsRenderingOfSum(ret.value[1][row][g],
                                  GroupChannels(image, row - 1, g - 1))

C2_Witness ==
  /\ call = "compress" /\ pc = "returned"
  /\ image.h = 2 /\ image.w = 2 * GroupSize /\ InRange(image)
  /\ image.px[0][0] # image.px[1][GroupSize + 1]
  /\ image.px[0][0][1] # image.px[0][0][3]
  /\ ret.value[1][1][1] # ret.value[1][2][2]

\* Every <<30 channel values, word>> pair packed from a conforming raster
PackedGroups ==
  UNION {{<<GroupChannels(pk[1], row - 1, g - 1), pk[2][row][g]>> :
            row \in 1..pk[1].h, g \in 1..(pk[1].w \div GroupSize)} :
         pk \in {q \in Packings : InRange(q[1])}}

\* C3: on groups of 10 pixels with all channel values in [0,255] the packing
\* is invertible (bytes 0..29 of the packed integer are the channel values
\* in the order pixel 0 red, green, blue, ..., pixel 9 blue) and injective
\* (distinct groups give distinct packed integers).
C3_PackRoundTrip ==
  /\ \A a \in PackedGroups : WellFormedWord(a[2]) /\ Unpack(a[2]) = a[1]
  /\ \A a, b \in PackedGroups : a[1] # b[1] => a[2] # b[2]

C3_Witness ==
  /\ call = "compress" /\ pc = "returned"
  /\ \E a, b \in PackedGroups :
       /\ a[1] # b[1]
       /\ \E k \in 0..(WordBytes - 1) : a[1][k] >= Byte \div 2
       /\ \E k \in 0..(WordBytes - 1) : b[1][k] = 0

\* C4: the clamp maps every coefficient v to clip(v, -127, 127) + 128: the
\* result is in [1,255], is v+128 for -127 <= v <= 127, 1 for v < -127 and
\* 255 for v > 127; the conversion to unsigned 8-bit changes no value and
\* the shape is that of the coefficient raster.
C4_Clamp ==
  transformed_clamped # <<>> =>
    LET t == transformed[1]
        x == transformed_clamped[1]
    IN  /\ x.h = t.h /\ x.w = t.w
        /\ AsTypeUint8(x) = x
        /\ \A r \in 0..(t.h - 1) : \A c \in 0..(t.w - 1) : \A ch \in 1..3 :
             LET v == t.px[r][c][ch]
                 y == x.px[r][c][ch]
             IN  /\ y >= 1 /\ y <= 255
                 /\ (v >= -127 /\ v <= 127) => y = v + 128
                 /\ v < -127 => y = 1
                 /\ v > 127 => y = 255

C4_Witness ==
  /\ pc = "pack_tran" /\ transformed_clamped # <<>>
  /\ \E r \in 0..(new_height - 1), c \in 0..(new_width - 1) :
       /\ transformed[1].px[r][c][1] < -128
       /\ transformed_clamped[1].px[r][c][1] = 1
  /\ \E r \in 0..(new_height - 1), c \in 0..(new_width - 1) :
       /\ transformed[1].px[r][c][2] > 128
       /\ transformed_clamped[1].px[r][c][2] = 255
  /\ \E r \in 0..(new_height - 1), c \in 0..(new_width - 1) :
       transformed[1].px[r][c][3] = -128

\* C5: given a raster whose width is not divisible by 10, create_compressed_rows
\* fails on its width assertion before packing any group: it returns no rows.
C5_WidthRejected ==
  (call = "compress" /\ image.w % GroupSize # 0)
    => /\ pc = "raised" /\ ~ret.ok /\ ret.value = <<>>
       /\ ret.error = "AssertionError" /\ ret.progress = 0

C5_Witness ==
  /\ call = "compress" /\ pc = "raised"
  /\ image.h >= 1 /\ image.w > GroupSize /\ image.w % GroupSize # 0

\* C6 (as claimed): a raster with a channel value outside [0,255] passed to
\* create_compressed_rows is rejected; no packed rows are returned for it.
C6_OutOfRangeRejected ==
  (call = "compress" /\ ~InRange(image)) => (~ret.ok /\ pc = "raised")

\* C7: given a raster whose height or width is not the canonical one, the
\* reshape fails on its shape assertion, before the output is allocated or
\* any row written; nothing is returned.
C7_ShapeRejected ==
  (call = "reshape" /\ (image.h # ImgHeight \/ image.w # ImgWidth))
    => /\ pc = "raised" /\ ~ret.ok /\ ret.value = <<>>
       /\ ret.error = "AssertionError" /\ ret.progress = 0

C7_Witness ==
  /\ call = "reshape" /\ pc = "raised"
  /\ image.h = ImgHeight /\ image.w = ImgWidth + 1

\* A word denoting an unsigned integer in [0, 2^240 - 1]
WordIn240Bits(word) == WellFormedWord(word) /\ Len(word) - 2 <= 2 * WordBytes

IsPackedRows(rows) ==
  /\ Len(rows) = new_height
  /\ \A i \in 1..Len(rows) :
       /\ Len(rows[i]) = new_width \div GroupSize
       /\ \A g \in 1..Len(rows[i]) : WordIn240Bits(rows[i][g])

\* C8: a completed run produces a structure with exactly the two sequences
\* "original" and "transformed", each of 8 * height rows (5760), each row of
\* chunk width / 10 words (16), every word an unsigned integer below 2^240.
C8_OutputShape ==
  (pc \in {"write", "done"})
    => /\ json_data # <<>>
       /\ DOMAIN json_data[1] = {"original", "transformed"}
       /\ IsPackedRows(json_data[1].original)
       /\ IsPackedRows(json_data[1].transformed)
       /\ pc = "done" => file = json_data

C8_Witness ==
  /\ pc = "done" /\ file # <<>>
  /\ Len(file[1].original[new_height][new_width \div GroupSize]) = 2 + 2 * WordBytes
  /\ Len(file[1].transformed) = new_height

\* C9: the structure is assembled and written only after reshape, transform,
\* packing of the original, clamp and packing of the clamped raster have all
\* completed; a run in which a stage failed is in the failed state and has
\* neither assembled nor written anything.
C9_AllOrNothing ==
  /\ json_data # <<>>
       => /\ reshaped # <<>> /\ transformed # <<>> /\ compressed_orig # <<>>
          /\ transformed_clamped # <<>> /\ compressed_tran # <<>>
          /\ ~kernel.fails /\ failedAt = "" /\ pc \in {"write", "done"}
  /\ file # <<>> => (json_data # <<>> /\ pc = "done")
  /\ (pc = "failed" \/ failedAt # "" \/ kernel.fails)
       => /\ pc = "failed" /\ failedAt # ""
          /\ json_data = <<>> /\ file = <<>>

C9_Witness ==
  /\ pc = "failed" /\ failedAt = "transform"
  /\ reshaped # <<>> /\ json_data = <<>> /\ file = <<>>

\* The three clamp cases, as the claim states them
ClampOf(v) == IF v < -127 THEN 1 ELSE IF v > 127 THEN 255 ELSE v + 128

\* C10: original = pack(reshape(I)) and transformed =
\* pack(clamp(T(reshape(I)))) with T given the tables [luminance,
\* chrominance, chrominance]; the rows packed as "original" hold the
\* reshaped raster as it was before the transform ran.
C10_OutputValues ==
  json_data # <<>> =>
    LET I == img_array[1]
        R == [h |-> NumChunks * I.h, w |-> I.w \div NumChunks,
              px |-> [nr \in 0..(NumChunks * I.h - 1) |->
                        [col \in 0..(I.w \div NumChunks - 1) |->
                           I.px[nr \div NumChunks]
                               [(nr % NumChunks) * (I.w \div NumChunks) + col]]]]
        T == DctqApprox(kernel, R,
                        <<"JPEG_QUANT_LUMINANCE", "JPEG_QUANT_CHROMINANCE",
                          "JPEG_QUANT_CHROMINANCE">>).value[1]
        Groups == 0..(R.w \div GroupSize - 1)
        orig == json_data[1].original
        tran == json_data[1].transformed
    IN  /\ reshaped[1] = R
        /\ Len(orig) = R.h /\ Len(tran) = R.h
        /\ \A nr \in 0..(R.h - 1) : \A g \in Groups :
             /\ WellFormedWord(orig[nr + 1][g + 1])
             /\ WellFormedWord(tran[nr + 1][g + 1])
             /\ \A k \in 0..(WordBytes - 1) :
                  /\ WordByte(orig[nr + 1][g + 1], k) = GroupChannels(R, nr, g)[k]
                  /\ WordByte(tran[nr + 1][g + 1], k)
                       = ClampOf(GroupChannels(T, nr, g)[k])

C10_Witness ==
  /\ pc = "done" /\ kernel.seed = 1
  /\ img_array[1].px[0][0] # img_array[1].px[ImgHeight - 1][ImgWidth - 1]
  /\ json_data[1].original # json_data[1].transformed

=============================================================================
